---- MODULE Spec2Model ----
(***************************************************************************)
(* Lumina studio manager: the booking conflict checker and the ledger      *)
(* mutators, as implemented twice in the repository:                       *)
(*   - StudioContext (src/unnamed/part_003): addBooking, addTransaction,   *)
(*     deleteTransaction, settleBooking, transferFunds, built on Firestore *)
(*     runTransaction;                                                     *)
(*   - App.tsx: handleAddBooking and the inline handlers handed to the     *)
(*     finance and team views, built on setDoc / writeBatch over the       *)
(*     client-held React state.                                            *)
(* The store is the Firestore database (collections bookings, accounts,    *)
(* transactions).  A Firestore runTransaction is serializable (its reads   *)
(* are validated at commit and the update function is re-run on            *)
(* contention), so each runTransaction is one atomic step here; every      *)
(* separate await of the handlers is a separate step.  In the ledger and   *)
(* booking specifications the owner is logged in throughout; the shell     *)
(* specification (view guard of App.tsx) moves between users and views.    *)
(***************************************************************************)
EXTENDS Integers, Sequences, FiniteSets, TLC

VARIABLES
    bookings,        \* store: collection "bookings", [ids of the existing docs -> booking]
    accounts,        \* store: collection "accounts", [ids of the existing docs -> balance]
    txns,            \* store: collection "transactions", [Date.now() of the ids t-<Date.now()> -> record]
    clientBookings,  \* App.tsx useState bookings, fed by onSnapshot
    clientAccounts,  \* App.tsx useState accounts, fed by onSnapshot
    bufferMinutes,   \* config.bufferMinutes
    now,             \* Date.now()
    pendingAdds,     \* StudioContext.addBooking calls between the pre-flight check and the write
    appAdds,         \* App.handleAddBooking calls between two awaits
    modal,           \* NewBookingModal: [isOpen (App isNewBookingModalOpen), isSubmitting]
    currentView,     \* App.tsx useState currentView
    currentUser,     \* App.tsx useState currentUser: [given, role]
    viewMode,        \* App.tsx useState viewMode
    isMenuOpen,      \* MobileNav useState isMenuOpen
    isCommandPaletteOpen, \* App.tsx useState isCommandPaletteOpen
    screen,          \* what App renders in the current state
    initBal,         \* history: the balance each account was created with
    last             \* history: the step taken last (operation, outcome, documents written)

vars == <<bookings, accounts, txns, clientBookings, clientAccounts,
          bufferMinutes, now, pendingAdds, appAdds, modal, currentView, currentUser,
          viewMode, isMenuOpen, isCommandPaletteOpen, screen, initBal, last>>

-----------------------------------------------------------------------------
(* Bounds of the model *)

MaxClock == 1        \* Date.now() ranges over 0..MaxClock
MaxBalance == 2      \* account balances and paidAmount stay within -MaxBalance..MaxBalance

-----------------------------------------------------------------------------
(* Values *)

NoId == "-"          \* an absent optional id (bookingId undefined)

BookingIds == {"b1", "b2"}
BookingOrder == <<"b1", "b2">>          \* query snapshots list documents by id
AccountIds == {"acc1", "acc2"}
\* timeStart "HH:MM" is the pair <<HH, MM>>
TimeStarts == {<<10, 0>>, <<12, 15>>, <<12, 30>>}
Durations == {1, 2}
Rooms == {"Main Studio", "Studio B"}
Dates == {"d1", "d2"}
BufferChoices == {0, 30}
Statuses == {"BOOKED", "CANCELLED"}
TxnIds == 0..MaxClock

\* A collection maps the ids of its existing documents to their data
Exists(coll, id) == id \in DOMAIN coll
Put(coll, id, data) == [x \in DOMAIN coll \cup {id} |-> IF x = id THEN data ELSE coll[x]]
Del(coll, id) == [x \in DOMAIN coll \ {id} |-> coll[x]]
Docs(coll) == {coll[x] : x \in DOMAIN coll}
Empty == [x \in {} |-> 0]

\* paymentDetails?: { amount, accountId }
NoPay == [given |-> FALSE, amount |-> 0, accountId |-> NoId]
Pay(amount, acc) == [given |-> TRUE, amount |-> amount, accountId |-> acc]

\* A Booking as the new-booking modal builds it (paidAmount: 0, status: 'BOOKED')
NewBooking(id, client, date, time, dur, room) ==
    [id |-> id, clientName |-> client, date |-> date, timeStart |-> time,
     duration |-> dur, studio |-> room, status |-> "BOOKED", paidAmount |-> 0]

-----------------------------------------------------------------------------
(* Conflict checker *)

StartMinsHourOnly(timeStart) == timeStart[1] * 60

\* timeStart.split(':').map(Number); h * 60 + m
StartMins(timeStart) == timeStart[1] * 60 + timeStart[2]

EndMinsNoBuffer(b, bufferMins) == StartMins(b.timeStart) + (b.duration * 60)

\* start + duration * 60 + bufferMins
EndMins(b, bufferMins) == StartMins(b.timeStart) + (b.duration * 60) + bufferMins

\* getDocs(query(bookings, where date == newBooking.date)): the ids, in document order
DayBookings(store, date) ==
    SelectSeq(BookingOrder, LAMBDA id : Exists(store, id) /\ store[id].date = date)

OverlapLoose(nb, b, bufferMins) ==
    /\ StartMins(nb.timeStart) <= EndMins(b, bufferMins)
    /\ EndMins(nb, bufferMins) >= StartMins(b.timeStart)

\* (newStartMins < bEndMins) && (newEndMins > bStartMins)
Overlap(nb, b, bufferMins) ==
    /\ StartMins(nb.timeStart) < EndMins(b, bufferMins)
    /\ EndMins(nb, bufferMins) > StartMins(b.timeStart)

IsRoomConflictWithCancelled(nb, b, bufferMins) ==
    IF b.studio # nb.studio \/ b.id = nb.id
    THEN FALSE
    ELSE Overlap(nb, b, bufferMins)

IsRoomConflictAnyId(nb, b, bufferMins) ==
    IF b.status = "CANCELLED" \/ b.studio # nb.studio
    THEN FALSE
    ELSE Overlap(nb, b, bufferMins)

\* the callback of dayBookings.find
IsRoomConflict(nb, b, bufferMins) ==
    IF b.status = "CANCELLED" \/ b.studio # nb.studio \/ b.id = nb.id
    THEN FALSE
    ELSE Overlap(nb, b, bufferMins)

\* dayBookings.find(...): <<the first conflicting booking>>, or <<>> for undefined
RoomConflict(nb, store, bufferMins) ==
    LET day == DayBookings(store, nb.date)
        hits == {i \in 1..Len(day) : IsRoomConflict(nb, store[day[i]], bufferMins)}
    IN  IF hits = {} THEN <<>>
        ELSE <<store[day[CHOOSE i \in hits : \A j \in hits : i <= j]]>>

\* What checkConflictOnServer does: <<"ok">>, or the message of the Error it throws
checkConflictOnServer(nb, store, bufferMins) ==
    LET roomConflict == RoomConflict(nb, store, bufferMins)
    IN  IF roomConflict # <<>>
        THEN <<"Conflict detected! Room occupied by", roomConflict[1].clientName>>
        ELSE <<"ok">>

-----------------------------------------------------------------------------
(* History of the last step *)

Step(op, res, thrown, notif, writes, bid, tid, arg) ==
    [op |-> op, res |-> res, thrown |-> thrown, notif |-> notif,
     writes |-> writes, bid |-> bid, tid |-> tid, arg |-> arg]

\* the modal before it is first opened
ModalClosed == [isOpen |-> FALSE, isSubmitting |-> FALSE]

NoStep == Step("init", <<"ok">>, FALSE, "none", {}, NoId, -1, <<>>)

InBounds(n) == -MaxBalance <= n /\ n <= MaxBalance

\* Booking ids are `b-${Date.now()}` of distinct submissions: a new one is unused
FreshId(id) ==
    /\ ~Exists(bookings, id)
    /\ \A p \in pendingAdds : p.b.id # id
    /\ \A p \in appAdds : p.b.id # id

\* { ...newBooking, paidAmount: paymentDetails?.amount || 0 }
BookingWithAuth(nb, pay) ==
    [nb EXCEPT !.paidAmount = IF pay.given THEN pay.amount ELSE 0]

Txn(tid, desc, amount, type, acc, category, bid) ==
    [id |-> tid, description |-> desc, amount |-> amount, type |-> type,
     accountId |-> acc, category |-> category, bookingId |-> bid]

Abs(n) == IF n < 0 THEN -n ELSE n

-----------------------------------------------------------------------------
(* StudioContext mutators *)

Ledger == <<accounts, txns>>
Client == <<clientBookings, clientAccounts>>
Env == <<bufferMinutes, initBal>>
Shell == <<currentView, currentUser, viewMode, isMenuOpen, isCommandPaletteOpen, screen>>

\* addBooking, STEP 1: await checkConflictOnServer(bookingWithAuth); a conflict is re-thrown
addBookingCheck(nb, pay) ==
    LET b == BookingWithAuth(nb, pay)
        res == checkConflictOnServer(b, bookings, bufferMinutes)
    IN  /\ FreshId(nb.id)
        /\ IF res = <<"ok">>
           THEN /\ pendingAdds' = pendingAdds \cup {[b |-> b, pay |-> pay]}
                /\ last' = Step("addBooking.check", res, FALSE, "none", {}, nb.id, -1, <<>>)
           ELSE /\ pendingAdds' = pendingAdds
                /\ last' = Step("addBooking", res, TRUE, "none", {}, nb.id, -1, <<>>)
        /\ UNCHANGED <<bookings, Ledger, Client, Env, now, appAdds, modal, Shell>>

\* addBooking, runTransaction body once the account was found: the three writes of one commit
DepositCommit(p) ==
    /\ InBounds(accounts[p.pay.accountId] + p.pay.amount)
    /\ bookings' = Put(bookings, p.b.id, p.b)
    /\ txns' = Put(txns, now, Txn(now, "Deposit", p.pay.amount, "INCOME", p.pay.accountId,
                                  "Sales / Booking", p.b.id))
    /\ accounts' = [accounts EXCEPT ![p.pay.accountId] = @ + p.pay.amount]
    /\ last' = Step("addBooking", <<"ok">>, FALSE, "Booking Created",
                    {"booking", "txn", "balance"}, p.b.id, now, <<>>)

\* addBooking, STEP 2: the transactional write, or the simple write without payment
addBookingWrite(p) ==
    /\ p \in pendingAdds
    /\ pendingAdds' = pendingAdds \ {p}
    /\ IF p.pay.given /\ p.pay.amount > 0
       THEN IF ~Exists(accounts, p.pay.accountId)
            THEN /\ last' = Step("addBooking", <<"Account does not exist!">>, TRUE, "none",
                                 {}, p.b.id, -1, <<>>)
                 /\ UNCHANGED <<bookings, Ledger>>
            ELSE DepositCommit(p)
       ELSE /\ bookings' = Put(bookings, p.b.id, p.b)
            /\ last' = Step("addBooking", <<"ok">>, FALSE, "Booking Created",
                            {"booking"}, p.b.id, -1, <<>>)
            /\ UNCHANGED Ledger
    /\ UNCHANGED <<Client, Env, now, appAdds, modal, Shell>>

\* addTransaction with a balance floor: an expense above the balance is refused
addTransactionFloor(data) ==
    /\ IF ~Exists(accounts, data.accountId)
       THEN /\ last' = Step("addTransaction", <<"Account not found">>, FALSE,
                            "Failed to record expense.", {}, data.bookingId, -1, <<>>)
            /\ UNCHANGED Ledger
       ELSE IF accounts[data.accountId] < data.amount
       THEN /\ last' = Step("addTransaction", <<"Insufficient funds">>, FALSE,
                            "Failed to record expense.", {}, data.bookingId, -1, <<>>)
            /\ UNCHANGED Ledger
       ELSE /\ InBounds(accounts[data.accountId] - data.amount)
            /\ txns' = Put(txns, now, Txn(now, data.description, data.amount, "EXPENSE",
                                          data.accountId, data.category, data.bookingId))
            /\ accounts' = [accounts EXCEPT ![data.accountId] = @ - data.amount]
            /\ last' = Step("addTransaction", <<"ok">>, FALSE, "Expense Recorded",
                            {"txn", "balance"}, data.bookingId, now, <<>>)
    /\ UNCHANGED <<bookings, Client, Env, now, pendingAdds, appAdds, modal, Shell>>

\* addTransaction(data): records an expense in one runTransaction; failures are swallowed
addTransaction(data) ==
    /\ IF ~Exists(accounts, data.accountId)
       THEN /\ last' = Step("addTransaction", <<"Account not found">>, FALSE,
                            "Failed to record expense.", {}, data.bookingId, -1, <<>>)
            /\ UNCHANGED Ledger
       ELSE /\ InBounds(accounts[data.accountId] - data.amount)
            /\ txns' = Put(txns, now, Txn(now, data.description, data.amount, "EXPENSE",
                                          data.accountId, data.category, data.bookingId))
            /\ accounts' = [accounts EXCEPT ![data.accountId] = @ - data.amount]
            /\ last' = Step("addTransaction", <<"ok">>, FALSE, "Expense Recorded",
                            {"txn", "balance"}, data.bookingId, now, <<>>)
    /\ UNCHANGED <<bookings, Client, Env, now, pendingAdds, appAdds, modal, Shell>>

\* deleteTransaction(id): deleteDoc of the record alone
deleteTransaction(tid) ==
    /\ Exists(txns, tid)
    /\ txns' = Del(txns, tid)
    /\ last' = Step("deleteTransaction", <<"ok">>, FALSE, "none", {"txn deleted"}, NoId, tid, <<>>)
    /\ UNCHANGED <<bookings, accounts, Client, Env, now, pendingAdds, appAdds, modal, Shell>>

\* settleBooking: newTrans with the raw signed amount
SettleTxnSigned(tid, bookingId, amount, accountId) ==
    Txn(tid, IF amount > 0 THEN "Payment" ELSE "Refund", amount,
        IF amount > 0 THEN "INCOME" ELSE "EXPENSE", accountId, "Sales / Booking", bookingId)

\* settleBooking: newTrans
SettleTxn(tid, bookingId, amount, accountId) ==
    Txn(tid, IF amount > 0 THEN "Payment" ELSE "Refund", Abs(amount),
        IF amount > 0 THEN "INCOME" ELSE "EXPENSE", accountId, "Sales / Booking", bookingId)

\* settleBooking(bookingId, amount, accountId): one runTransaction; failures are swallowed
settleBooking(bookingId, amount, accountId) ==
    /\ IF ~Exists(bookings, bookingId)
       THEN /\ last' = Step("settleBooking", <<"Booking not found">>, FALSE,
                            "Could not process payment. Please try again.",
                            {}, bookingId, -1, <<>>)
            /\ UNCHANGED <<bookings, Ledger>>
       ELSE IF ~Exists(accounts, accountId)
       THEN /\ last' = Step("settleBooking", <<"Account not found">>, FALSE,
                            "Could not process payment. Please try again.",
                            {}, bookingId, -1, <<>>)
            /\ UNCHANGED <<bookings, Ledger>>
       ELSE /\ InBounds(bookings[bookingId].paidAmount + amount)
            /\ InBounds(accounts[accountId] + amount)
            /\ bookings' = [bookings EXCEPT ![bookingId].paidAmount = @ + amount]
            /\ accounts' = [accounts EXCEPT ![accountId] = @ + amount]
            /\ txns' = Put(txns, now, SettleTxn(now, bookingId, amount, accountId))
            /\ last' = Step("settleBooking", <<"ok">>, FALSE, "Payment Recorded",
                            {"booking", "txn", "balance"}, bookingId, now, <<>>)
    /\ UNCHANGED <<Client, Env, now, pendingAdds, appAdds, modal, Shell>>

\* transaction.update(fromRef, ...); transaction.update(toRef, ...): the later write of a
\* field wins when both name the same document
TwoUpdates(coll, fromId, fromBal, toId, toBal) ==
    [[coll EXCEPT ![fromId] = fromBal] EXCEPT ![toId] = toBal]

\* transferFunds(fromId, toId, amount): one runTransaction; failures are swallowed
transferFunds(fromId, toId, amount) ==
    /\ IF ~Exists(accounts, fromId) \/ ~Exists(accounts, toId)
       THEN /\ last' = Step("transferFunds", <<"One or both accounts not found">>, FALSE,
                            "One or both accounts not found", {}, NoId, -1, <<>>)
            /\ UNCHANGED Ledger
       ELSE IF accounts[fromId] < amount
       THEN /\ last' = Step("transferFunds", <<"Insufficient funds">>, FALSE,
                            "Insufficient funds", {}, NoId, -1, <<>>)
            /\ UNCHANGED Ledger
       ELSE /\ InBounds(accounts[fromId] - amount)
            /\ InBounds(accounts[toId] + amount)
            /\ accounts' = TwoUpdates(accounts, fromId, accounts[fromId] - amount,
                                      toId, accounts[toId] + amount)
            /\ txns' = Put(txns, now, Txn(now, "Transfer to", amount, "TRANSFER", fromId,
                                          "Transfer", NoId))
            /\ last' = Step("transferFunds", <<"ok">>, FALSE, "Transfer Complete",
                            {"txn", "balance"}, NoId, now, <<>>)
    /\ UNCHANGED <<bookings, Client, Env, now, pendingAdds, appAdds, modal, Shell>>

-----------------------------------------------------------------------------
(* App.tsx: listeners and handlers *)

\* onSnapshot(qBookings, snap => setBookings(...))
SnapshotBookings ==
    /\ clientBookings # bookings
    /\ clientBookings' = bookings
    /\ UNCHANGED <<bookings, Ledger, clientAccounts, Env, now, pendingAdds, appAdds, last, modal, Shell>>

\* onSnapshot(qAccounts, snap => { if (accData.length > 0) setAccounts(accData) })
SnapshotAccounts ==
    /\ clientAccounts # accounts
    /\ DOMAIN accounts # {}
    /\ clientAccounts' = accounts
    /\ UNCHANGED <<bookings, Ledger, clientBookings, Env, now, pendingAdds, appAdds, last, modal, Shell>>

\* handleAddBooking up to its first await: setDoc of the booking, with no conflict check;
\* a deposit without accountId is skipped with a console warning after that write
handleAddBookingCall(nb, pay) ==
    LET b == BookingWithAuth(nb, pay)
    IN  /\ FreshId(nb.id)
        /\ bookings' = Put(bookings, nb.id, b)
        /\ appAdds' = IF pay.given /\ pay.amount > 0 /\ pay.accountId # NoId
                      THEN appAdds \cup {[b |-> b, pay |-> pay, pc |-> "txn",
                                          tid |-> -1, readBal |-> 0]}
                      ELSE appAdds
        /\ last' = Step("handleAddBooking", <<"ok">>, FALSE, "none", {"booking"},
                        nb.id, -1, <<>>)
        /\ UNCHANGED <<Ledger, Client, Env, now, pendingAdds, Shell>>

\* whether the call returns at its first await (no transaction to record)
ReturnsAtOnce(pay) == ~(pay.given /\ pay.amount > 0 /\ pay.accountId # NoId)

\* the modal after await onAddBooking(...): onClose(), finally setIsSubmitting(false)
ModalAfterCall == [isOpen |-> FALSE, isSubmitting |-> FALSE]

\* App.handleAddBooking(newBooking, paymentDetails)
handleAddBooking(nb, pay) ==
    /\ handleAddBookingCall(nb, pay)
    /\ UNCHANGED modal

handleSubmitUnchecked(nb, pay) ==
    /\ modal.isOpen /\ ~modal.isSubmitting
    /\ handleAddBookingCall(nb, IF pay.amount > 0 THEN pay ELSE NoPay)
    /\ modal' = IF ReturnsAtOnce(IF pay.amount > 0 THEN pay ELSE NoPay)
                THEN ModalAfterCall
                ELSE [modal EXCEPT !.isSubmitting = TRUE]

\* NewBookingModal.handleSubmit (the Confirm button, disabled while isSubmitting): the
\* deposit validation, setIsSubmitting(true), then await onAddBooking(newBooking,
\* paymentForm.amount > 0 ? paymentForm : undefined), which is App.handleAddBooking; the
\* bookings prop of the modal is not read
handleSubmit(nb, pay) ==
    /\ modal.isOpen /\ ~modal.isSubmitting
    /\ IF pay.amount > 0 /\ pay.accountId = NoId
       THEN /\ last' = Step("handleSubmit", <<"Please select a valid account for deposit.">>,
                            FALSE, "alert", {}, nb.id, -1, <<nb>>)
            /\ UNCHANGED <<bookings, Ledger, Client, Env, now, pendingAdds, appAdds, modal, Shell>>
       ELSE /\ handleAddBookingCall(nb, IF pay.amount > 0 THEN pay ELSE NoPay)
            /\ modal' = IF ReturnsAtOnce(IF pay.amount > 0 THEN pay ELSE NoPay)
                        THEN ModalAfterCall
                        ELSE [modal EXCEPT !.isSubmitting = TRUE]

\* App: setIsNewBookingModalOpen(true) (with or without a new prefill); the effect on
\* [isOpen, initialData] runs setStep(1) and setIsSubmitting(false)
openModal ==
    /\ ~modal.isOpen
    /\ modal' = [isOpen |-> TRUE, isSubmitting |-> FALSE]
    /\ UNCHANGED <<bookings, Ledger, Client, Env, now, pendingAdds, appAdds, last, Shell>>

\* the backdrop: onClick={isSubmitting ? undefined : onClose}
closeBackdrop ==
    /\ modal.isOpen /\ ~modal.isSubmitting
    /\ modal' = [modal EXCEPT !.isOpen = FALSE]
    /\ UNCHANGED <<bookings, Ledger, Client, Env, now, pendingAdds, appAdds, last, Shell>>

\* the close button of the mobile header: onClick={onClose}
closeMobile ==
    /\ modal.isOpen
    /\ modal' = [modal EXCEPT !.isOpen = FALSE]
    /\ UNCHANGED <<bookings, Ledger, Client, Env, now, pendingAdds, appAdds, last, Shell>>

\* handleAddBooking: await setDoc(doc(db, "transactions", transactionId), newTransaction)
handleAddBookingTxn(p) ==
    /\ p \in appAdds /\ p.pc = "txn"
    /\ txns' = Put(txns, now, Txn(now, "Deposit", p.pay.amount, "INCOME", p.pay.accountId,
                                  "Sales / Booking", p.b.id))
    /\ appAdds' = (appAdds \ {p}) \cup {[p EXCEPT !.pc = "read", !.tid = now]}
    /\ last' = Step("handleAddBooking", <<"ok">>, FALSE, "none", {"txn"}, p.b.id, now, <<>>)
    /\ UNCHANGED <<bookings, accounts, Client, Env, now, pendingAdds, modal, Shell>>

\* handleAddBooking: const accSnap = await getDoc(accountRef); without the account the
\* call returns, and the modal that awaited it closes
handleAddBookingRead(p) ==
    /\ p \in appAdds /\ p.pc = "read"
    /\ IF Exists(accounts, p.pay.accountId)
       THEN /\ appAdds' = (appAdds \ {p}) \cup
                             {[p EXCEPT !.pc = "write", !.readBal = accounts[p.pay.accountId]]}
            /\ last' = Step("handleAddBooking", <<"ok">>, FALSE, "none", {}, p.b.id, p.tid, <<>>)
            /\ modal' = modal
       ELSE /\ appAdds' = appAdds \ {p}
            /\ last' = Step("handleAddBooking", <<"account missing">>, FALSE, "none", {},
                            p.b.id, p.tid, <<>>)
            /\ modal' = ModalAfterCall
    /\ UNCHANGED <<bookings, Ledger, Client, Env, now, pendingAdds, Shell>>

\* handleAddBooking: await updateDoc(accountRef, { balance: currentBal + amount }); the
\* call returns, and the modal that awaited it closes
handleAddBookingBalance(p) ==
    /\ p \in appAdds /\ p.pc = "write"
    /\ InBounds(p.readBal + p.pay.amount)
    /\ accounts' = [accounts EXCEPT ![p.pay.accountId] = p.readBal + p.pay.amount]
    /\ appAdds' = appAdds \ {p}
    /\ modal' = ModalAfterCall
    /\ last' = Step("handleAddBooking", <<"ok">>, FALSE, "none", {"balance"},
                    p.b.id, p.tid, <<>>)
    /\ UNCHANGED <<bookings, txns, Client, Env, now, pendingAdds, Shell>>

\* FinanceView onTransfer: a batch computed from the client-held accounts
onTransfer(fromId, toId, amount) ==
    /\ IF /\ Exists(clientAccounts, fromId)
          /\ Exists(clientAccounts, toId)
          /\ clientAccounts[fromId] >= amount
       THEN /\ InBounds(clientAccounts[fromId] - amount)
            /\ InBounds(clientAccounts[toId] + amount)
            /\ accounts' = TwoUpdates(accounts, fromId, clientAccounts[fromId] - amount,
                                      toId, clientAccounts[toId] + amount)
            /\ txns' = Put(txns, now, Txn(now, "Transfer to", amount, "TRANSFER", fromId,
                                          "Internal Transfer", NoId))
            /\ last' = Step("onTransfer", <<"ok">>, FALSE, "none", {"txn", "balance"},
                            NoId, now, <<>>)
       ELSE /\ last' = Step("onTransfer", <<"skipped">>, FALSE, "none", {}, NoId, -1, <<>>)
            /\ UNCHANGED Ledger
    /\ UNCHANGED <<bookings, Client, Env, now, pendingAdds, appAdds, modal, Shell>>

\* FinanceView onRecordExpense: the record always, the balance only for a client-held account
onRecordExpense(data) ==
    /\ txns' = Put(txns, now, Txn(now, data.description, data.amount, "EXPENSE",
                                  data.accountId, data.category, data.bookingId))
    /\ IF Exists(clientAccounts, data.accountId)
       THEN /\ InBounds(clientAccounts[data.accountId] - data.amount)
            /\ accounts' = [accounts EXCEPT ![data.accountId] =
                               clientAccounts[data.accountId] - data.amount]
            /\ last' = Step("onRecordExpense", <<"ok">>, FALSE, "none", {"txn", "balance"},
                            data.bookingId, now, <<>>)
       ELSE /\ accounts' = accounts
            /\ last' = Step("onRecordExpense", <<"ok">>, FALSE, "none", {"txn"},
                            data.bookingId, now, <<>>)
    /\ UNCHANGED <<bookings, Client, Env, now, pendingAdds, appAdds, modal, Shell>>

\* TeamView onRecordExpense (handlePayout): setDoc of the record alone
teamRecordExpense(data) ==
    /\ data.amount > 0
    /\ txns' = Put(txns, now, Txn(now, data.description, data.amount, "EXPENSE",
                                  data.accountId, data.category, data.bookingId))
    /\ last' = Step("teamRecordExpense", <<"ok">>, FALSE, "Payout recorded as an expense.",
                    {"txn"}, data.bookingId, now, <<>>)
    /\ UNCHANGED <<bookings, accounts, Client, Env, now, pendingAdds, appAdds, modal, Shell>>

\* FinanceView onSettleBooking: a batch computed from the client-held booking and account
onSettleBooking(bookingId, amount, accountId) ==
    /\ IF Exists(clientBookings, bookingId) /\ Exists(clientAccounts, accountId)
       THEN /\ InBounds(clientBookings[bookingId].paidAmount + amount)
            /\ InBounds(clientAccounts[accountId] + amount)
            /\ bookings' = [bookings EXCEPT ![bookingId].paidAmount =
                               clientBookings[bookingId].paidAmount + amount]
            /\ accounts' = [accounts EXCEPT ![accountId] = clientAccounts[accountId] + amount]
            /\ txns' = Put(txns, now, SettleTxn(now, bookingId, amount, accountId))
            /\ last' = Step("onSettleBooking", <<"ok">>, FALSE, "none",
                            {"booking", "txn", "balance"}, bookingId, now, <<>>)
       ELSE /\ last' = Step("onSettleBooking", <<"skipped">>, FALSE, "none", {},
                            bookingId, -1, <<>>)
            /\ UNCHANGED <<bookings, Ledger>>
    /\ UNCHANGED <<Client, Env, now, pendingAdds, appAdds, modal, Shell>>

\* StudioContext.updateBooking(b): setDoc of the whole booking the caller holds
updateBooking(b) ==
    /\ bookings' = Put(bookings, b.id, b)
    /\ last' = Step("updateBooking", <<"ok">>, FALSE, "none", {"booking"}, b.id, -1, <<b>>)
    /\ UNCHANGED <<Ledger, Client, Env, now, pendingAdds, appAdds, modal, Shell>>

\* App.tsx onUpdateBooking(b): setBookings(prev.map(...)) and setDoc of the whole booking
onUpdateBooking(b) ==
    /\ clientBookings' = [x \in DOMAIN clientBookings |->
                             IF x = b.id THEN b ELSE clientBookings[x]]
    /\ bookings' = Put(bookings, b.id, b)
    /\ last' = Step("onUpdateBooking", <<"ok">>, FALSE, "none", {"booking"}, b.id, -1, <<b>>)
    /\ UNCHANGED <<Ledger, clientAccounts, Env, now, pendingAdds, appAdds, modal, Shell>>

\* FinanceView onAddAccount: setDoc of a new account with its opening balance
onAddAccount(id, balance) ==
    /\ ~Exists(accounts, id)
    /\ accounts' = Put(accounts, id, balance)
    /\ initBal' = Put(initBal, id, balance)
    /\ last' = Step("onAddAccount", <<"ok">>, FALSE, "none", {"account"}, NoId, -1, <<>>)
    /\ UNCHANGED <<bookings, txns, Client, bufferMinutes, now, pendingAdds, appAdds, modal, Shell>>

\* FinanceView onUpdateAccount(acc): setDoc of the account object the view holds, its
\* balance included
onUpdateAccount(id) ==
    /\ Exists(clientAccounts, id)
    /\ accounts' = Put(accounts, id, clientAccounts[id])
    /\ last' = Step("onUpdateAccount", <<"ok">>, FALSE, "none", {"account"}, NoId, -1, <<>>)
    /\ UNCHANGED <<bookings, txns, Client, Env, now, pendingAdds, appAdds, modal, Shell>>

\* Date.now() moves on
Tick ==
    /\ now < MaxClock
    /\ now' = now + 1
    /\ UNCHANGED <<bookings, Ledger, Client, Env, pendingAdds, appAdds, last, modal, Shell>>

\* a probe of the conflict checker alone: checkConflictOnServer(newBooking)
ConflictProbe(nb) ==
    /\ last' = Step("checkConflictOnServer", checkConflictOnServer(nb, bookings, bufferMinutes),
                    checkConflictOnServer(nb, bookings, bufferMinutes) # <<"ok">>,
                    "none", {}, nb.id, -1, <<nb>>)
    /\ UNCHANGED <<bookings, Ledger, Client, Env, now, pendingAdds, appAdds, modal, Shell>>

-----------------------------------------------------------------------------
(* Inputs *)

ClientOf(id) == IF id = "b1" THEN "Ana" ELSE "Budi"

\* submissions of the new-booking modal: two slots of Main Studio on one day
RaceBookings ==
    {NewBooking(id, ClientOf(id), "d1", t, 2, "Main Studio") :
        id \in BookingIds, t \in {<<10, 0>>, <<12, 30>>}}

\* the one booking of the ledger specifications
LedgerBookings == {NewBooking("b1", "Ana", "d1", <<10, 0>>, 2, "Main Studio")}

Payments == {NoPay} \cup {Pay(1, a) : a \in AccountIds}
SettleAmounts == {-1, 0, 1}
TransferAmounts == {-1, 0, 1}
Expenses ==
    {[description |-> "Expense", amount |-> 1, category |-> "Other",
      accountId |-> a, bookingId |-> NoId] : a \in AccountIds}
\* ProjectDrawer onAddTransaction: an expense of the project the drawer shows, linked to
\* that booking by bookingId
ProjectExpenses ==
    {[description |-> "Project expense", amount |-> 1, category |-> "Other",
      accountId |-> "acc1", bookingId |-> b] : b \in DOMAIN clientBookings}
\* TeamView.handlePayout: accountId 'acc1', amount > 0
Payouts ==
    {[description |-> "Commission Payout", amount |-> 1, category |-> "Staff Salaries",
      accountId |-> "acc1", bookingId |-> NoId]}
\* paymentForm of the modal: no deposit, a deposit into an account, a deposit with no
\* account selected
PaymentForms == Payments \cup {Pay(1, NoId)}
OpeningBalances == {0, 1}

\* the slots a calendar reschedule moves a booking to
RescheduleSlots == {<<10, 0>>, <<12, 30>>}

\* the copies { ...booking, <changes> } the drawer and the calendar build from the
\* client-held booking: a status change, a reschedule, or a change of a field that
\* is not modelled (contract, drive link), which leaves the modelled fields as held
Edits(b) ==
    {[b EXCEPT !.status = st] : st \in Statuses}
        \cup {[b EXCEPT !.timeStart = t] : t \in RescheduleSlots}

\* what the views can hand to updateBooking / onUpdateBooking
Updates == UNION {Edits(clientBookings[id]) : id \in DOMAIN clientBookings}

\* every shape of a stored booking with a given id
StoredBookings(id) ==
    {[NewBooking(id, ClientOf(id), d, t, dur, room) EXCEPT !.status = st] :
        d \in Dates, t \in TimeStarts, dur \in Durations, room \in Rooms, st \in Statuses}

DayStores ==
    {Empty} \cup {Put(Empty, "b1", b) : b \in StoredBookings("b1")}
            \cup {Put(Empty, "b2", b) : b \in StoredBookings("b2")}
            \cup {Put(Put(Empty, "b1", b), "b2", c) :
                     b \in StoredBookings("b1"), c \in StoredBookings("b2")}

\* the candidates handed to the checker: a new booking, or an edit of a stored one
Candidates ==
    {NewBooking(id, "Cand", "d1", t, dur, room) :
        id \in BookingIds, t \in TimeStarts, dur \in Durations, room \in Rooms}

-----------------------------------------------------------------------------
(* App shell: role-based view guard and navigation *)

Roles == {"OWNER", "ADMIN", "PHOTOGRAPHER", "EDITOR", "FINANCE"}
NoUser == [given |-> FALSE, role |-> "-"]
User(r) == [given |-> TRUE, role |-> r]

\* STRICT RBAC VIEW MAP
VIEW_PERMISSIONS ==
    [v \in {"dashboard", "calendar", "production", "inventory", "clients", "team",
            "finance", "analytics", "settings"} |->
        CASE v = "dashboard"  -> {"OWNER", "ADMIN", "PHOTOGRAPHER", "EDITOR", "FINANCE"}
          [] v = "calendar"   -> {"OWNER", "ADMIN", "PHOTOGRAPHER"}
          [] v = "production" -> {"OWNER", "ADMIN", "EDITOR", "PHOTOGRAPHER"}
          [] v = "inventory"  -> {"OWNER", "ADMIN", "PHOTOGRAPHER"}
          [] v = "clients"    -> {"OWNER", "ADMIN", "FINANCE"}
          [] v = "team"       -> {"OWNER", "ADMIN", "FINANCE"}
          [] v = "finance"    -> {"OWNER", "FINANCE"}
          [] v = "analytics"  -> {"OWNER", "ADMIN"}
          [] v = "settings"   -> {"OWNER", "ADMIN"}]

\* the case labels of the switch of renderView
ViewCases ==
    {"dashboard", "calendar", "production", "inventory", "clients", "team", "finance",
     "analytics", "settings"}

\* the view names navigation hands to onNavigate (a string): the module views and a name
\* that has no entry
ViewNames == ViewCases \cup {"reports"}

\* MobileNav: navItems of the bottom bar, menuItems of the "More" menu
navItems == {"dashboard", "calendar", "production", "finance"}
menuItems == {"inventory", "clients", "team", "analytics", "settings"}

\* renderView with the switch alone, without the permission test
renderViewUnguarded(view, role) ==
    IF view \in ViewCases THEN view ELSE "AccessDenied"

\* renderView: VIEW_PERMISSIONS[currentView]?.includes(currentUser.role), then the switch
renderView(view, role) ==
    IF ~(view \in DOMAIN VIEW_PERMISSIONS /\ role \in VIEW_PERMISSIONS[view])
    THEN "AccessDenied"
    ELSE IF view \in ViewCases THEN view ELSE "AccessDenied"

\* the return of App: auth flow, launcher, site builder, or the main OS with renderView()
AppRender(user, mode, view) ==
    IF ~user.given
    THEN (IF mode = "LAUNCHER" THEN "LandingPageView"
          ELSE IF mode = "SITE" THEN "RegisterView" ELSE "LoginView")
    ELSE IF mode = "LAUNCHER" THEN "AppLauncher"
    ELSE IF mode = "SITE" THEN "SiteBuilderView"
    ELSE renderView(view, user.role)

\* the owner logged in, in the main OS, on the dashboard
ShellInit ==
    /\ currentView = "dashboard"
    /\ currentUser = User("OWNER")
    /\ viewMode = "OS"
    /\ isMenuOpen = FALSE
    /\ isCommandPaletteOpen = FALSE
    /\ screen = AppRender(User("OWNER"), "OS", "dashboard")

Data ==
    <<bookings, accounts, txns, clientBookings, clientAccounts, bufferMinutes, now,
      pendingAdds, appAdds, modal, initBal, last>>

\* a state update of the shell followed by the render of App
SetShell(user, mode, view, menu, palette) ==
    /\ currentUser' = user
    /\ viewMode' = mode
    /\ currentView' = view
    /\ isMenuOpen' = menu
    /\ isCommandPaletteOpen' = palette
    /\ screen' = AppRender(user, mode, view)
    /\ UNCHANGED Data

InOS == currentUser.given /\ viewMode = "OS"

\* Sidebar onNavigate={setCurrentView}
onNavigate(view) ==
    /\ InOS
    /\ SetShell(currentUser, viewMode, view, isMenuOpen, isCommandPaletteOpen)

\* CommandPalette onNavigate={setCurrentView}; the palette may close itself (onClose)
paletteNavigate(view, closes) ==
    /\ InOS
    /\ isCommandPaletteOpen
    /\ SetShell(currentUser, viewMode, view, isMenuOpen, ~closes)

\* MobileNav.handleNav(view): onNavigate(view); setIsMenuOpen(false)
handleNav(view) ==
    /\ InOS
    /\ view \in navItems \/ (isMenuOpen /\ view \in menuItems)
    /\ SetShell(currentUser, viewMode, view, FALSE, isCommandPaletteOpen)

\* MobileNav "More" button and the close button of the menu
setIsMenuOpen(open) ==
    /\ InOS
    /\ isMenuOpen # open
    /\ SetShell(currentUser, viewMode, currentView, open, isCommandPaletteOpen)

\* mobile header search button, Cmd-K, CommandPalette onClose
setIsCommandPaletteOpen(open) ==
    /\ InOS
    /\ isCommandPaletteOpen # open
    /\ SetShell(currentUser, viewMode, currentView, isMenuOpen, open)

\* AppLauncher onSelectApp, Sidebar onSwitchApp, SiteBuilderView onExit; MobileNav is
\* unmounted outside the main OS
setViewMode(mode) ==
    /\ currentUser.given
    /\ viewMode # mode
    /\ viewMode = "LAUNCHER" \/ mode = "LAUNCHER"
    /\ SetShell(currentUser, mode, currentView, FALSE, isCommandPaletteOpen)

\* handleLogout: setCurrentUser(null); setViewMode('LAUNCHER')
handleLogout ==
    /\ currentUser.given
    /\ SetShell(NoUser, "LAUNCHER", currentView, FALSE, isCommandPaletteOpen)

\* landing, login and register pages: onLogin, onRegister, onHome
authSetViewMode(mode) ==
    /\ ~currentUser.given
    /\ viewMode # mode
    /\ SetShell(currentUser, mode, currentView, isMenuOpen, isCommandPaletteOpen)

\* onAuthStateChanged: setCurrentUser of the profile stored for the account
onAuthStateChanged(role) ==
    /\ ~currentUser.given
    /\ SetShell(User(role), viewMode, currentView, isMenuOpen, isCommandPaletteOpen)

-----------------------------------------------------------------------------
(* Specifications *)

\* after onboarding: one account with balance 0, no booking, no transaction
Init ==
    /\ bookings = Empty
    /\ accounts = Put(Empty, "acc1", 0)
    /\ txns = Empty
    /\ clientBookings = Empty
    /\ clientAccounts = Put(Empty, "acc1", 0)
    /\ bufferMinutes = 30
    /\ now = 0
    /\ pendingAdds = {}
    /\ appAdds = {}
    /\ modal = ModalClosed
    /\ ShellInit
    /\ initBal = Put(Empty, "acc1", 0)
    /\ last = NoStep

\* the StudioContext ledger mutators
CtxNext ==
    \/ \E nb \in LedgerBookings, pay \in Payments : addBookingCheck(nb, pay)
    \/ \E p \in pendingAdds : addBookingWrite(p)
    \/ \E data \in Expenses : addTransaction(data)
    \/ \E tid \in TxnIds : deleteTransaction(tid)
    \/ \E b \in BookingIds, amt \in SettleAmounts, a \in AccountIds : settleBooking(b, amt, a)
    \/ \E f \in AccountIds, t \in AccountIds, amt \in TransferAmounts : transferFunds(f, t, amt)
    \/ \E a \in AccountIds, bal \in OpeningBalances : onAddAccount(a, bal)
    \/ Tick

Spec == Init /\ [][CtxNext]_vars

\* StudioContext.addBooking calls racing for the rooms
BookingNext ==
    \/ \E nb \in RaceBookings, pay \in Payments : addBookingCheck(nb, pay)
    \/ \E p \in pendingAdds : addBookingWrite(p)
    \/ Tick

SpecBooking == Init /\ [][BookingNext]_vars

\* StudioContext.settleBooking on the bookings addBooking creates
SettleNext ==
    \/ \E nb \in LedgerBookings, pay \in Payments : addBookingCheck(nb, pay)
    \/ \E p \in pendingAdds : addBookingWrite(p)
    \/ \E b \in BookingIds, amt \in SettleAmounts, a \in AccountIds : settleBooking(b, amt, a)
    \/ \E a \in AccountIds, bal \in OpeningBalances : onAddAccount(a, bal)
    \/ Tick

SpecSettle == Init /\ [][SettleNext]_vars

\* StudioContext: the expense ledger alone (accounts, expenses, deletions, clock)
ExpenseNext ==
    \/ \E a \in AccountIds, bal \in OpeningBalances : onAddAccount(a, bal)
    \/ \E data \in Expenses : addTransaction(data)
    \/ \E tid \in TxnIds : deleteTransaction(tid)
    \/ Tick

SpecExpense == Init /\ [][ExpenseNext]_vars

\* StudioContext: the operations that touch a booking's payments and its linked records
PaidNext ==
    \/ \E data \in ProjectExpenses : addTransaction(data)
    \/ \E tid \in TxnIds : deleteTransaction(tid)
    \/ \E nb \in LedgerBookings, pay \in Payments : addBookingCheck(nb, pay)
    \/ \E p \in pendingAdds : addBookingWrite(p)
    \/ \E b \in BookingIds, amt \in SettleAmounts : settleBooking(b, amt, "acc1")
    \/ \E b \in Updates : updateBooking(b)
    \/ SnapshotBookings
    \/ Tick

SpecPaid == Init /\ [][PaidNext]_vars

\* App.tsx: the booking handlers (new-booking modal, settlement) and the listeners
AppBookingNext ==
    \/ SnapshotBookings
    \/ SnapshotAccounts
    \/ \E nb \in LedgerBookings, pay \in Payments : handleAddBooking(nb, pay)
    \/ \E p \in appAdds : handleAddBookingTxn(p)
    \/ \E p \in appAdds : handleAddBookingRead(p)
    \/ \E p \in appAdds : handleAddBookingBalance(p)
    \/ \E b \in BookingIds, amt \in SettleAmounts, a \in AccountIds : onSettleBooking(b, amt, a)
    \/ Tick

SpecAppBooking == Init /\ [][AppBookingNext]_vars

\* App.tsx: the handlers given to the finance and team views
AppFinanceNext ==
    \/ SnapshotAccounts
    \/ \E data \in Expenses : onRecordExpense(data)
    \/ \E data \in Payouts : teamRecordExpense(data)
    \/ \E f \in AccountIds, t \in AccountIds, amt \in TransferAmounts : onTransfer(f, t, amt)
    \/ \E tid \in TxnIds : deleteTransaction(tid)
    \/ \E a \in AccountIds, bal \in OpeningBalances : onAddAccount(a, bal)
    \/ \E a \in AccountIds : onUpdateAccount(a)
    \/ Tick

SpecAppFinance == Init /\ [][AppFinanceNext]_vars

\* a booking created, settled and edited from the client-held copy
UpdateNext ==
    \/ SnapshotBookings
    \/ \E nb \in LedgerBookings : addBookingCheck(nb, NoPay)
    \/ \E p \in pendingAdds : addBookingWrite(p)
    \/ \E b \in BookingIds, amt \in SettleAmounts : settleBooking(b, amt, "acc1")
    \/ \E b \in Updates : updateBooking(b)
    \/ \E b \in Updates : onUpdateBooking(b)
    \/ Tick

SpecUpdate == Init /\ [][UpdateNext]_vars

\* two bookings of one room created and then rescheduled from the client-held copies
RescheduleNext ==
    \/ SnapshotBookings
    \/ \E nb \in RaceBookings : addBookingCheck(nb, NoPay)
    \/ \E p \in pendingAdds : addBookingWrite(p)
    \/ \E b \in Updates : updateBooking(b)
    \/ \E b \in Updates : onUpdateBooking(b)

SpecReschedule == Init /\ [][RescheduleNext]_vars

\* App.tsx: handleAddBooking calls submitted for the same rooms
AppRaceNext ==
    \/ \E nb \in RaceBookings, pay \in Payments : handleAddBooking(nb, pay)
    \/ \E p \in appAdds : handleAddBookingTxn(p)
    \/ \E p \in appAdds : handleAddBookingRead(p)
    \/ \E p \in appAdds : handleAddBookingBalance(p)
    \/ Tick

SpecAppRace == Init /\ [][AppRaceNext]_vars

\* the new-booking modal in front of App.handleAddBooking
ModalNext ==
    \/ openModal
    \/ closeBackdrop
    \/ closeMobile
    \/ SnapshotBookings
    \/ \E nb \in RaceBookings, pay \in PaymentForms : handleSubmit(nb, pay)
    \/ \E p \in appAdds : handleAddBookingTxn(p)
    \/ \E p \in appAdds : handleAddBookingRead(p)
    \/ \E p \in appAdds : handleAddBookingBalance(p)
    \/ Tick

SpecModal == Init /\ [][ModalNext]_vars

\* App.tsx: the shell (login, app mode, navigation from sidebar, mobile bar and palette)
ShellNext ==
    \/ \E view \in ViewNames : onNavigate(view)
    \/ \E view \in ViewNames, closes \in BOOLEAN : paletteNavigate(view, closes)
    \/ \E view \in navItems \cup menuItems : handleNav(view)
    \/ \E open \in BOOLEAN : setIsMenuOpen(open)
    \/ \E open \in BOOLEAN : setIsCommandPaletteOpen(open)
    \/ \E mode \in {"LAUNCHER", "OS", "SITE"} : setViewMode(mode)
    \/ handleLogout
    \/ \E mode \in {"LAUNCHER", "OS", "SITE"} : authSetViewMode(mode)
    \/ \E role \in Roles : onAuthStateChanged(role)

SpecShell == Init /\ [][ShellNext]_vars

\* the conflict checker over every day of stored bookings
ConflictInit ==
    /\ bookings \in DayStores
    /\ accounts = Put(Empty, "acc1", 0)
    /\ txns = Empty
    /\ clientBookings = Empty
    /\ clientAccounts = Put(Empty, "acc1", 0)
    /\ bufferMinutes \in BufferChoices
    /\ now = 0
    /\ pendingAdds = {}
    /\ appAdds = {}
    /\ modal = ModalClosed
    /\ ShellInit
    /\ initBal = Put(Empty, "acc1", 0)
    /\ last = NoStep

ConflictNext == \E nb \in Candidates : ConflictProbe(nb)

SpecConflict == ConflictInit /\ [][ConflictNext]_vars

-----------------------------------------------------------------------------
(* Properties *)

Ok == <<"ok">>

\* the busy interval of the claims: start .. start + duration*60 + buffer, in minutes
BusyStart(b) == b.timeStart[1] * 60 + b.timeStart[2]
BusyEnd(b) == b.timeStart[1] * 60 + b.timeStart[2] + b.duration * 60 + bufferMinutes

\* C1: the store never holds two non-cancelled bookings of the same room and date whose
\* busy intervals overlap, however two concurrent addBooking calls interleave.
C1_NoDoubleBooking ==
    \A i \in DOMAIN bookings, j \in DOMAIN bookings :
        (/\ i # j
         /\ bookings[i].status # "CANCELLED" /\ bookings[j].status # "CANCELLED"
         /\ bookings[i].studio = bookings[j].studio
         /\ bookings[i].date = bookings[j].date)
        => ~(/\ BusyStart(bookings[i]) < BusyEnd(bookings[j])
             /\ BusyStart(bookings[j]) < BusyEnd(bookings[i]))

\* the stored bookings the candidate nb is compared with: same date and room, not
\* cancelled, another id
Eligible(nb) ==
    {id \in DOMAIN bookings :
        /\ bookings[id].date = nb.date /\ bookings[id].studio = nb.studio
        /\ bookings[id].status # "CANCELLED" /\ id # nb.id}

\* C2: checkConflictOnServer reports a conflict exactly when some stored non-cancelled
\* booking with another id, in the candidate's room on its date, has
\* candidateStart < existingStart + existingDuration*60 + buffer and
\* candidateStart + candidateDuration*60 + buffer > existingStart.
C2_ConflictIff ==
    last.op = "checkConflictOnServer" =>
        LET nb == last.arg[1]
        IN  (last.res # Ok) <=>
                \E id \in Eligible(nb) :
                    /\ BusyStart(nb) < BusyStart(bookings[id]) + bookings[id].duration * 60
                                          + bufferMinutes
                    /\ BusyStart(nb) + nb.duration * 60 + bufferMinutes > BusyStart(bookings[id])

\* C2 witness: the checker rejected a candidate that starts in the last minutes of the
\* buffer of a stored booking
C2_Witness ==
    /\ last.op = "checkConflictOnServer"
    /\ last.res # Ok
    /\ bufferMinutes = 30
    /\ \E id \in Eligible(last.arg[1]) :
          /\ BusyStart(last.arg[1]) > BusyStart(bookings[id]) + bookings[id].duration * 60
          /\ BusyStart(last.arg[1]) < BusyEnd(bookings[id])

\* C3: a commit writes a transaction record if and only if it changes an account balance.
C3_TxnIffBalance == ("txn" \in last.writes) <=> ("balance" \in last.writes)

\* C4: a committed settlement adds its amount to the stored paidAmount and adds one record
\* to the log, so that two concurrent settlements of amounts a and b leave paidAmount at
\* its previous value + a + b and two new records.
C4_NoLostUpdate ==
    [][\A b \in BookingIds, amt \in SettleAmounts, a \in AccountIds :
          (/\ amt # 0
           /\ settleBooking(b, amt, a) \/ onSettleBooking(b, amt, a)
           /\ last'.res = Ok)
          => /\ bookings'[b].paidAmount = bookings[b].paidAmount + amt
             /\ Cardinality(DOMAIN txns') = Cardinality(DOMAIN txns) + 1]_vars

RECURSIVE SumOf(_, _)
SumOf(f, S) == IF S = {} THEN 0 ELSE LET x == CHOOSE y \in S : TRUE IN f[x] + SumOf(f, S \ {x})

\* the amount of a record signed by its kind, for the account it is tagged to
Signed(t) == IF t.type = "INCOME" THEN t.amount ELSE -t.amount

SignedSum(a) ==
    SumOf([t \in DOMAIN txns |-> Signed(txns[t])], {t \in DOMAIN txns : txns[t].accountId = a})

\* C5: for each account the signed sum of its transactions is its balance minus its
\* initial balance.
C5_LedgerSum == \A a \in DOMAIN accounts : SignedSum(a) = accounts[a] - initBal[a]

MissingFailures ==
    {<<"Account does not exist!">>, <<"Booking not found">>, <<"Account not found">>,
     <<"account missing">>}

\* C6: an addBooking with deposit or a settleBooking that fails for a missing account or
\* booking wrote nothing: no booking record, no transaction record, no balance.
C6_FailedLeavesStore ==
    (last.op \in {"addBooking", "handleAddBooking", "settleBooking", "onSettleBooking"}
        /\ last.res \in MissingFailures)
    => /\ last.writes = {}
       /\ last.op \in {"addBooking", "handleAddBooking"} =>
             /\ ~Exists(bookings, last.bid)
             /\ \A t \in DOMAIN txns : txns[t].bookingId # last.bid

\* C7: a transfer of more than the source holds at commit time changes no balance and no
\* transaction, and shows an insufficient-funds failure.
C7_InsufficientFunds ==
    [][\A f \in AccountIds, t \in AccountIds, amt \in TransferAmounts :
          (/\ transferFunds(f, t, amt) \/ onTransfer(f, t, amt)
           /\ Exists(accounts, f) /\ Exists(accounts, t)
           /\ amt > accounts[f])
          => /\ accounts' = accounts
             /\ txns' = txns
             /\ last'.notif = "Insufficient funds"]_vars

\* C8: the step of an add-booking call with deposit d > 0 into an existing account that
\* writes the booking (paidAmount = d) writes with it the INCOME transaction of d linked
\* to the booking and the account, and the balance increased by d.
C8_DepositAtomic ==
    [][\A nb \in LedgerBookings, pay \in Payments :
          (/\ pay.given /\ pay.amount > 0
           /\ Exists(accounts, pay.accountId)
           /\ \/ addBookingWrite([b |-> BookingWithAuth(nb, pay), pay |-> pay])
              \/ handleAddBooking(nb, pay))
          => /\ Exists(bookings', nb.id)
             /\ bookings'[nb.id].paidAmount = pay.amount
             /\ accounts'[pay.accountId] = accounts[pay.accountId] + pay.amount
             /\ Exists(txns', now)
             /\ txns'[now].type = "INCOME" /\ txns'[now].amount = pay.amount
             /\ txns'[now].bookingId = nb.id /\ txns'[now].accountId = pay.accountId]_vars

\* C9: a successful settleBooking(bookingId, amount, accountId) adds amount to paidAmount
\* and to the balance, and writes one transaction of |amount|, INCOME and "Payment" for
\* amount > 0, EXPENSE and "Refund" otherwise.
C9_Settle ==
    [][\A b \in BookingIds, amt \in SettleAmounts, a \in AccountIds :
          (settleBooking(b, amt, a) /\ last'.res = Ok)
          => /\ bookings'[b].paidAmount = bookings[b].paidAmount + amt
             /\ accounts'[a] = accounts[a] + amt
             /\ \E t \in DOMAIN txns' :
                   /\ \A u \in DOMAIN txns' \ {t} : Exists(txns, u) /\ txns'[u] = txns[u]
                   /\ DOMAIN txns \subseteq DOMAIN txns'
                   /\ txns'[t].amount = (IF amt < 0 THEN -amt ELSE amt)
                   /\ txns'[t].type = (IF amt > 0 THEN "INCOME" ELSE "EXPENSE")
                   /\ txns'[t].description = (IF amt > 0 THEN "Payment" ELSE "Refund")
                   /\ txns'[t].bookingId = b /\ txns'[t].accountId = a]_vars

\* C9 witness: a refund was settled
C9_Witness ==
    /\ last.op = "settleBooking" /\ last.res = Ok
    /\ txns[last.tid].description = "Refund" /\ txns[last.tid].amount = 1
    /\ txns[last.tid].type = "EXPENSE"

\* C10: a successful transferFunds(fromId, toId, amount) of a positive amount takes amount
\* from the source and adds it to the destination (leaving the balance as it was when they
\* are the same account), and writes one TRANSFER transaction of that amount tagged to the
\* source.
C10_Transfer ==
    [][\A f \in AccountIds, t \in AccountIds, amt \in TransferAmounts :
          (amt > 0 /\ transferFunds(f, t, amt) /\ last'.res = Ok)
          => /\ f # t => /\ accounts'[f] = accounts[f] - amt
                         /\ accounts'[t] = accounts[t] + amt
             /\ f = t => accounts'[f] = accounts[f]
             /\ Exists(txns', now)
             /\ txns'[now].type = "TRANSFER" /\ txns'[now].amount = amt
             /\ txns'[now].accountId = f]_vars

\* C11: recording an expense against an account that does not exist at commit time writes
\* no transaction record and changes no balance, on every path that records an expense.
C11_ExpenseAborts ==
    [][\A data \in Expenses \cup Payouts :
          (/\ addTransaction(data) \/ onRecordExpense(data) \/ teamRecordExpense(data)
           /\ ~Exists(accounts, data.accountId))
          => /\ txns' = txns
             /\ accounts' = accounts]_vars

\* C12: when the conflict rule, applied to the stored bookings at the time an add-booking
\* call checks them, finds a conflict, the call writes no booking, no transaction and no
\* balance, and throws an error naming the client of a conflicting booking.
C12_ConflictRejected ==
    [][\A nb \in RaceBookings, pay \in Payments :
          (/\ addBookingCheck(nb, pay) \/ handleAddBooking(nb, pay)
           /\ \E id \in Eligible(nb) :
                 /\ BusyStart(nb) < BusyEnd(bookings[id])
                 /\ BusyStart(bookings[id]) < BusyEnd(nb))
          => /\ bookings' = bookings /\ txns' = txns /\ accounts' = accounts
             /\ last'.thrown
             /\ \E id \in Eligible(nb) :
                   /\ BusyStart(nb) < BusyEnd(bookings[id])
                   /\ BusyStart(bookings[id]) < BusyEnd(nb)
                   /\ last'.res = <<"Conflict detected! Room occupied by",
                                    bookings[id].clientName>>]_vars

\* C13: an update of a stored booking whose new date, time, duration or room overlaps
\* another non-cancelled booking of the same room and date is rejected: the stored
\* bookings stay as they were.
C13_UpdateRejected ==
    [][\A b \in Updates :
          (/\ updateBooking(b) \/ onUpdateBooking(b)
           /\ Exists(bookings, b.id)
           /\ b.status # "CANCELLED"
           /\ \E id \in Eligible(b) :
                 /\ BusyStart(b) < BusyEnd(bookings[id])
                 /\ BusyStart(bookings[id]) < BusyEnd(b))
          => bookings' = bookings]_vars

\* C14: the stored paidAmount of an existing booking changes only in a step of the
\* settlement operation on that booking, whatever updateBooking calls interleave.
C14_PaidOnlyBySettlement ==
    [][\A id \in DOMAIN bookings :
          (id \in DOMAIN bookings' /\ bookings'[id].paidAmount # bookings[id].paidAmount)
          => /\ last'.op \in {"settleBooking", "onSettleBooking"}
             /\ last'.bid = id]_vars

\* C15: every write of a balance is the balance read from the store in the same atomic
\* operation, changed by the operation's amount: the stored balance moves by exactly that
\* amount, and an account update leaves the stored balance as it is.
C15_BalanceFromRead ==
    [][/\ \A data \in Expenses :
             (/\ addTransaction(data) \/ onRecordExpense(data)
              /\ "balance" \in last'.writes)
             => accounts'[data.accountId] = accounts[data.accountId] - data.amount
       /\ \A f \in AccountIds, t \in AccountIds, amt \in TransferAmounts :
             (/\ f # t
              /\ transferFunds(f, t, amt) \/ onTransfer(f, t, amt)
              /\ last'.res = Ok)
             => /\ accounts'[f] = accounts[f] - amt
                /\ accounts'[t] = accounts[t] + amt
       /\ \A b \in BookingIds, amt \in SettleAmounts, a \in AccountIds :
             (/\ settleBooking(b, amt, a) \/ onSettleBooking(b, amt, a)
              /\ last'.res = Ok)
             => accounts'[a] = accounts[a] + amt
       /\ \A p \in appAdds :
             handleAddBookingBalance(p)
             => accounts'[p.pay.accountId] = accounts[p.pay.accountId] + p.pay.amount
       /\ \A a \in AccountIds : onUpdateAccount(a) => accounts' = accounts]_vars

Conflict(client) == <<"Conflict detected! Room occupied by", client>>

\* C16: a candidate starting at the minute the busy interval (duration plus buffer) of the
\* stored booking ends is not reported, a candidate starting inside the interval is; with
\* buffer 30 and A at 10:00 for 2h in Main Studio, a 1h candidate at 12:15 conflicts and a
\* candidate at 12:30 does not.
C16_TouchingBoundary ==
    last.op = "checkConflictOnServer" =>
        LET nb == last.arg[1]
        IN  /\ (\E id \in Eligible(nb) :
                   /\ BusyStart(bookings[id]) <= BusyStart(nb)
                   /\ BusyStart(nb) < BusyEnd(bookings[id]))
               => last.res # Ok
            /\ (Eligible(nb) # {}
                  /\ \A id \in Eligible(nb) : BusyStart(nb) = BusyEnd(bookings[id]))
               => last.res = Ok
            /\ (/\ bufferMinutes = 30 /\ nb.studio = "Main Studio"
                /\ \E id \in Eligible(nb) :
                      bookings[id].timeStart = <<10, 0>> /\ bookings[id].duration = 2
                /\ nb.timeStart = <<12, 15>> /\ nb.duration = 1)
               => last.res # Ok
            /\ (/\ bufferMinutes = 30 /\ nb.studio = "Main Studio"
                /\ Eligible(nb) # {}
                /\ \A id \in Eligible(nb) :
                      bookings[id].timeStart = <<10, 0>> /\ bookings[id].duration = 2
                /\ nb.timeStart = <<12, 30>>)
               => last.res = Ok

\* C16 witness: with buffer 30 the candidate at 12:30 was accepted next to A at 10:00 for 2h
C16_Witness ==
    /\ last.op = "checkConflictOnServer" /\ last.res = Ok
    /\ bufferMinutes = 30
    /\ last.arg[1].timeStart = <<12, 30>> /\ last.arg[1].studio = "Main Studio"
    /\ \E id \in Eligible(last.arg[1]) :
          bookings[id].timeStart = <<10, 0>> /\ bookings[id].duration = 2

\* C17: a CANCELLED booking is never the booking the check reports, and the check gives
\* the answer it gives without that booking in the store.
C17_CancelledIgnored ==
    last.op = "checkConflictOnServer" =>
        \A id \in DOMAIN bookings :
            bookings[id].status = "CANCELLED"
            => /\ last.res # Conflict(bookings[id].clientName)
               /\ last.res = checkConflictOnServer(last.arg[1], Del(bookings, id), bufferMinutes)

\* C17 witness: a cancelled booking of another id overlaps the candidate in its room on its
\* date, and the candidate was accepted
C17_Witness ==
    /\ last.op = "checkConflictOnServer" /\ last.res = Ok
    /\ \E id \in DOMAIN bookings :
          /\ bookings[id].status = "CANCELLED" /\ id # last.arg[1].id
          /\ bookings[id].studio = last.arg[1].studio /\ bookings[id].date = last.arg[1].date
          /\ bookings[id].timeStart = last.arg[1].timeStart

\* C18: the check never reports the stored booking with the candidate's id, nor a booking
\* of another room.
C18_SelfAndOtherRoom ==
    last.op = "checkConflictOnServer" =>
        \A id \in DOMAIN bookings :
            (id = last.arg[1].id \/ bookings[id].studio # last.arg[1].studio)
            => last.res # Conflict(bookings[id].clientName)

\* C18 witness: the stored booking with the candidate's id overlaps it in its room on its
\* date, and the candidate was accepted
C18_Witness ==
    /\ last.op = "checkConflictOnServer" /\ last.res = Ok
    /\ \E id \in DOMAIN bookings :
          /\ id = last.arg[1].id /\ bookings[id].status # "CANCELLED"
          /\ bookings[id].studio = last.arg[1].studio /\ bookings[id].date = last.arg[1].date
          /\ bookings[id].timeStart = last.arg[1].timeStart

Distance(a, b) == IF a < b THEN b - a ELSE a - b

\* C19 as stated: the checker reports a conflict exactly when, for the candidate and some
\* stored booking of its room and date, |startA - startB| < durationA*60 + durationB*60 + B.
C19_SumOfDurations ==
    last.op = "checkConflictOnServer" =>
        LET nb == last.arg[1]
        IN  (last.res # Ok) <=>
                \E id \in Eligible(nb) :
                    Distance(BusyStart(nb), BusyStart(bookings[id]))
                        < nb.duration * 60 + bookings[id].duration * 60 + bufferMinutes

\* C19 amended: the checker reports a conflict exactly when, for the candidate and some
\* stored non-cancelled booking of another id in its room on its date,
\* |startA - startB| < D*60 + B, D the duration of the one of the two that starts first.
C19_DurationOfFirst ==
    last.op = "checkConflictOnServer" =>
        LET nb == last.arg[1]
        IN  (last.res # Ok) <=>
                \E id \in Eligible(nb) :
                    Distance(BusyStart(nb), BusyStart(bookings[id]))
                        < (IF BusyStart(nb) <= BusyStart(bookings[id])
                           THEN nb.duration ELSE bookings[id].duration) * 60 + bufferMinutes

\* C19 witness: the starts are closer than the sum of both durations plus the buffer, but
\* not closer than the duration of the first plus the buffer, and the candidate was accepted
C19_Witness ==
    /\ last.op = "checkConflictOnServer" /\ last.res = Ok
    /\ \E id \in Eligible(last.arg[1]) :
          /\ BusyStart(bookings[id]) < BusyStart(last.arg[1])
          /\ BusyStart(last.arg[1]) - BusyStart(bookings[id])
                < last.arg[1].duration * 60 + bookings[id].duration * 60 + bufferMinutes
          /\ BusyStart(last.arg[1]) - BusyStart(bookings[id])
                >= bookings[id].duration * 60 + bufferMinutes

\* C20: when the client-held booking list is identical to the stored one, a submission of
\* the booking modal passes on to the add-booking handler exactly when checkConflictOnServer
\* accepts the candidate on that list: the advisory and the binding check agree.
C20_AdvisoryEqualsBinding ==
    [][\A nb \in RaceBookings, pay \in Payments :
          (handleSubmit(nb, pay) /\ clientBookings = bookings)
          => ((last'.op = "handleAddBooking") <=>
                 (checkConflictOnServer(BookingWithAuth(nb, pay), bookings, bufferMinutes) = Ok))]_vars

\* C21: a failing addBooking, addTransaction, settleBooking or transferFunds call does not
\* complete normally: its failure is thrown to the caller, who sees which failure it was.
C21_FailuresThrown ==
    (last.op \in {"addBooking", "addTransaction", "settleBooking", "transferFunds"}
        /\ last.res # Ok)
    => last.thrown

\* C22: a submission of the booking modal with a deposit amount above zero and no deposit
\* account starts no backend call: no booking, no transaction, no balance is written and no
\* add-booking call is left in flight.
C22_DepositNeedsAccount ==
    [][\A nb \in RaceBookings, pay \in PaymentForms :
          (pay.amount > 0 /\ pay.accountId = NoId /\ handleSubmit(nb, pay))
          => /\ bookings' = bookings
             /\ txns' = txns
             /\ accounts' = accounts
             /\ appAdds' = appAdds]_vars

\* C22 witness: the modal has just refused a deposit without account
C22_Witness ==
    /\ last.op = "handleSubmit"
    /\ last.res = <<"Please select a valid account for deposit.">>
    /\ modal.isOpen /\ ~modal.isSubmitting
    /\ ~Exists(bookings, last.bid)

\* C23: at most one onAddBooking call issued by the booking modal is outstanding at any
\* time, whatever the sequence of confirm clicks, closes and reopenings.
C23_SingleInFlight == Cardinality(appAdds) <= 1

\* C24: every transaction record in the log has a strictly positive amount.
C24_PositiveAmounts == \A t \in DOMAIN txns : txns[t].amount > 0

\* C25: an expense larger than the account's balance still commits: the record is
\* written, the whole amount is subtracted and the balance becomes negative.
C25_Overdraft == [][\A data \in Expenses :
        (/\ Exists(accounts, data.accountId)
         /\ accounts[data.accountId] < data.amount
         /\ addTransaction(data))
        => /\ last'.res = Ok
           /\ Exists(txns', now)
           /\ txns'[now].amount = data.amount
           /\ accounts'[data.accountId] = accounts[data.accountId] - data.amount
           /\ accounts'[data.accountId] < 0]_vars
C25_Witness ==
    /\ last.op = "addTransaction"
    /\ last.res = Ok
    /\ Exists(txns, last.tid)
    /\ Exists(accounts, txns[last.tid].accountId)
    /\ accounts[txns[last.tid].accountId] < 0

\* the money held by the studio: the sum of all account balances
TotalBalance(accs) == SumOf(accs, DOMAIN accs)

\* C26: transferFunds conserves money: for every source, destination (equal ones included)
\* and amount, whether it commits or fails, the sum of all balances after it is the sum
\* before it.
C26_TransferConserves ==
    [][\A f \in AccountIds, t \in AccountIds, amt \in TransferAmounts :
          transferFunds(f, t, amt) => TotalBalance(accounts') = TotalBalance(accounts)]_vars

\* C27: no account balance is negative after any sequence of transferFunds calls that starts
\* from non-negative balances, whatever the amounts (stated for transfers between two
\* different accounts).
C27_TransfersKeepNonNegative ==
    [][\A f \in AccountIds, t \in AccountIds, amt \in TransferAmounts :
          (/\ \A a \in DOMAIN accounts : accounts[a] >= 0
           /\ f # t
           /\ transferFunds(f, t, amt))
          => \A a \in DOMAIN accounts' : accounts'[a] >= 0]_vars

\* the ledger operations of StudioContext that write a transaction record
LedgerCommit ==
    \/ \E p \in pendingAdds : addBookingWrite(p)
    \/ \E data \in Expenses : addTransaction(data)
    \/ \E b \in BookingIds, amt \in SettleAmounts, a \in AccountIds : settleBooking(b, amt, a)
    \/ \E f \in AccountIds, t \in AccountIds, amt \in TransferAmounts : transferFunds(f, t, amt)

\* C28: every committed ledger operation that writes a transaction record adds a new record
\* to the log and leaves every record that was there before as it was.
C28_RecordsNeverOverwritten ==
    [][(LedgerCommit /\ "txn" \in last'.writes)
       => /\ Cardinality(DOMAIN txns') = Cardinality(DOMAIN txns) + 1
          /\ \A t \in DOMAIN txns : Exists(txns', t) /\ txns'[t] = txns[t]]_vars

\* the INCOME records linked to a booking minus the EXPENSE records linked to it
LinkedSum(b) ==
    SumOf([t \in DOMAIN txns |-> Signed(txns[t])],
          {t \in DOMAIN txns : txns[t].bookingId = b /\ txns[t].type \in {"INCOME", "EXPENSE"}})

\* C29: the stored paidAmount of every booking is the sum of the INCOME transactions linked
\* to it minus the sum of the EXPENSE transactions linked to it.
C29_PaidIsLinkedSum == \A b \in DOMAIN bookings : bookings[b].paidAmount = LinkedSum(b)

\* C30: a module view is on screen only when it is the current view and the role of the
\* current user is listed for it in VIEW_PERMISSIONS; in the main OS, for any other role
\* and for a view name with no entry, the Access Denied screen is shown.
C30_ViewGuard ==
    /\ screen \in ViewCases =>
          /\ currentUser.given
          /\ screen = currentView
          /\ currentUser.role \in VIEW_PERMISSIONS[screen]
    /\ (InOS /\ ~(currentView \in DOMAIN VIEW_PERMISSIONS
                    /\ currentUser.role \in VIEW_PERMISSIONS[currentView]))
          => screen = "AccessDenied"
    /\ screen = "finance" => currentUser.role \in {"OWNER", "FINANCE"}
C30_Witness ==
    /\ InOS
    /\ currentUser.role = "PHOTOGRAPHER"
    /\ currentView = "finance"
    /\ screen = "AccessDenied"

====
